---- MODULE Spec2Model ----
(***************************************************************************)
(* Model of the blind test pipeline of src/blindtest:                     *)
(*   fetch_video_clips (video_sources.py) -> clip_videos (clipper.py)     *)
(*   -> build_blindtest (assembler.py), sequenced by main (main.py).      *)
(* The media engine (moviepy), the search API and the downloader are      *)
(* external: every call into them either succeeds or raises.              *)
(* Durations are whole numbers of time units; a path is the sequence of   *)
(* its components; the filesystem is the set of paths that exist.         *)
(***************************************************************************)
EXTENDS Integers, Sequences, FiniteSets, TLC

\* ---- bounds ----
MaxItems == 2
MaxDuration == 2
MaxClipDuration == 2
MaxSilence == 1

\* ---- values ----
NoVideoId == ""
VideoIds == {"a", "b"}
NoneDuration == -1
DurationValues == {NoneDuration} \cup (0..MaxDuration)
ClipDurations == (-1)..MaxClipDuration
SilenceDurations == (-1)..MaxSilence
Strategies == {"random", "start"}
OutputPaths == {<<"blindtest.mp4">>, <<"out", "blindtest.mp4">>, <<"clips", "blindtest.mp4">>}
CaughtErrors == {"VideoRetrievalError", "ClipGenerationError", "AssemblyError"}

SeqsUpTo(S, n) == UNION {[1..k -> S] : k \in 0..n}

\* ---- pathlib / shutil ----
IsPrefix(d, p) == Len(d) <= Len(p) /\ SubSeq(p, 1, Len(d)) = d
Parent(p) == SubSeq(p, 1, Len(p) - 1)
Mkdir(files, d) == files \cup {SubSeq(d, 1, k) : k \in 1..Len(d)}
Rmtree(files, d) == {p \in files : ~IsPrefix(d, p)}

VARIABLES entry, args, pc, stage, fs, handles, released, clips, videos, idx,
          duration, start, generated_files, excerpts, assembled_clips,
          created, exc, outcome

vars == <<entry, args, pc, stage, fs, handles, released, clips, videos, idx,
          duration, start, generated_files, excerpts, assembled_clips,
          created, exc, outcome>>

\* ---- video_sources.py ----
VideoClip(video_id, download_path) ==
    [video_id |-> video_id, file_path |-> download_path \o <<video_id \o ".mp4">>]

\* ---- clipper.py ----
\* slip: zero accepted as a duration
ClipDurationInvalidStrict(clip_duration) == clip_duration < 0

ClipDurationInvalid(clip_duration) == clip_duration <= 0

\* slip: the upper end of the sampled range is the whole duration
StartChoicesWholeRange(d, clip_duration, start_strategy) ==
    IF d = NoneDuration \/ d < clip_duration THEN {0}
    ELSE IF start_strategy = "random" THEN 0..d ELSE {0}

StartChoices(d, clip_duration, start_strategy) ==
    IF d = NoneDuration \/ d < clip_duration THEN {0}
    ELSE IF start_strategy = "random"
         THEN 0..(IF d - clip_duration > 0 THEN d - clip_duration ELSE 0)
         ELSE {0}

Target(clip, output_path, audio_only) ==
    output_path \o <<clip.video_id \o "_clip." \o (IF audio_only THEN "mp3" ELSE "mp4")>>

\* slip: insert(0, target) instead of append(target)
PrependGenerated(files, target) == <<target>> \o files

AppendGenerated(files, target) == Append(files, target)

\* ---- assembler.py ----
ContentSegment(clip_path) == [kind |-> "content", path |-> clip_path]
SilenceSegment == [kind |-> "silence", path |-> <<>>]

\* slip: the silence is appended without testing silence_duration
WithSegmentsAlways(assembled, clip_path, silence_duration) ==
    assembled \o <<ContentSegment(clip_path), SilenceSegment>>

WithSegments(assembled, clip_path, silence_duration) ==
    IF silence_duration # 0
    THEN assembled \o <<ContentSegment(clip_path), SilenceSegment>>
    ELSE Append(assembled, ContentSegment(clip_path))

SilenceInvalid(silence_duration) == silence_duration < 0

\* ---- main.py ----
\* slip: only the download directory is removed
CleanupDownloadsOnly(files, download_dir, clips_dir) ==
    IF download_dir \in files THEN Rmtree(files, download_dir) ELSE files

Cleanup(files, download_dir, clips_dir) ==
    LET afterDownloads == IF download_dir \in files THEN Rmtree(files, download_dir) ELSE files
    IN  IF clips_dir \in afterDownloads THEN Rmtree(afterDownloads, clips_dir) ELSE afterDownloads

\* ---- initial states: the arguments of one call ----
DownloadDir == <<"downloads">>
ClipsDir == <<"clips">>

ToVideoClip(video_id) == VideoClip(video_id, DownloadDir)
ToVideoClips(ids) == [i \in 1..Len(ids) |-> ToVideoClip(ids[i])]

Args(items, randomize, audio_only, clip_duration, silence_duration, output, start_strategy, moviepy) ==
    [items |-> items, randomize |-> randomize, audio_only |-> audio_only,
     clip_duration |-> clip_duration, silence_duration |-> silence_duration,
     output |-> output, download_dir |-> DownloadDir, clips_dir |-> ClipsDir,
     start_strategy |-> start_strategy, moviepy |-> moviepy]

InitCommon ==
    /\ handles = {}
    /\ released = <<>>
    /\ clips = <<>>
    /\ idx = 1
    /\ duration = NoneDuration
    /\ start = 0
    /\ generated_files = <<>>
    /\ assembled_clips = <<>>
    /\ created = [called |-> FALSE, clips |-> <<>>]
    /\ exc = "none"
    /\ outcome = "running"

\* python -m blindtest.main QUERY [flags]: main() always uses the default
\* start_strategy of clip_videos.
InitMain ==
    /\ entry = "main"
    /\ \E items \in SeqsUpTo(VideoIds \cup {NoVideoId}, MaxItems),
          randomize \in BOOLEAN, audio_only \in BOOLEAN, moviepy \in BOOLEAN,
          clip_duration \in ClipDurations, silence_duration \in SilenceDurations,
          output \in OutputPaths :
          args = Args(items, randomize, audio_only, clip_duration,
                      silence_duration, output, "random", moviepy)
    /\ pc = "fetch_call"
    /\ stage = "fetch"
    /\ fs = {}
    /\ videos = <<>>
    /\ excerpts = <<>>
    /\ InitCommon

\* clip_videos(clips, clip_duration=..., start_strategy=..., audio_only=...)
\* called on files that were downloaded before.
InitClipVideos ==
    /\ entry = "clip_videos"
    /\ \E audio_only \in BOOLEAN, moviepy \in BOOLEAN,
          clip_duration \in ClipDurations, start_strategy \in Strategies :
          args = Args(<<>>, FALSE, audio_only, clip_duration, 1,
                      <<"blindtest.mp4">>, start_strategy, moviepy)
    /\ \E ids \in SeqsUpTo(VideoIds, MaxItems) : videos = ToVideoClips(ids)
    /\ pc = "cv_validate"
    /\ stage = "clip"
    /\ fs = {DownloadDir} \cup {videos[i].file_path : i \in 1..Len(videos)}
    /\ excerpts = <<>>
    /\ InitCommon

\* build_blindtest(clips, output_path=..., silence_duration=..., audio_only=...)
\* called on excerpt files that were written before.
InitBuildBlindtest ==
    /\ entry = "build_blindtest"
    /\ \E audio_only \in BOOLEAN, moviepy \in BOOLEAN,
          silence_duration \in SilenceDurations, output \in OutputPaths :
          args = Args(<<>>, FALSE, audio_only, 1, silence_duration, output,
                      "random", moviepy)
    /\ \E ids \in SeqsUpTo(VideoIds, MaxItems) :
          excerpts = [i \in 1..Len(ids) |->
                         Target(ToVideoClip(ids[i]), ClipsDir, args.audio_only)]
    /\ pc = "bb_validate"
    /\ stage = "build"
    /\ fs = {ClipsDir} \cup {excerpts[i] : i \in 1..Len(excerpts)}
    /\ videos = <<>>
    /\ InitCommon

Init == InitMain \/ InitClipVideos \/ InitBuildBlindtest

\* raise: control leaves the running component with exception type e
Raise(e) ==
    /\ exc' = e
    /\ pc' = "raise"

\* ---- fetch_video_clips ----
\* api key check, search request, empty response check
FetchCall ==
    /\ pc = "fetch_call"
    /\ \E api_key_set \in BOOLEAN, status_ok \in BOOLEAN :
          IF ~api_key_set \/ ~status_ok \/ args.items = <<>>
          THEN Raise("VideoRetrievalError") /\ UNCHANGED <<clips, idx>>
          ELSE /\ clips' = <<>>
               /\ idx' = 1
               /\ pc' = "fetch_item"
               /\ UNCHANGED exc
    /\ UNCHANGED <<entry, args, stage, fs, handles, released, videos, duration,
                   start, generated_files, excerpts, assembled_clips, created, outcome>>

\* one iteration of "for item in items"
FetchItem ==
    /\ pc = "fetch_item"
    /\ idx <= Len(args.items)
    /\ LET video_id == args.items[idx]
           clip == VideoClip(video_id, args.download_dir)
       IN  IF video_id = NoVideoId
           THEN /\ idx' = idx + 1
                /\ UNCHANGED <<pc, exc, clips, fs>>
           ELSE \E result \in {"ok", "no_stream", "download_error"} :
                   \/ /\ result = "ok"
                      /\ fs' = Mkdir(fs, args.download_dir) \cup {clip.file_path}
                      /\ clips' = Append(clips, clip)
                      /\ idx' = idx + 1
                      /\ UNCHANGED <<pc, exc>>
                   \/ /\ result = "no_stream"
                      /\ fs' = Mkdir(fs, args.download_dir)
                      /\ Raise("VideoRetrievalError")
                      /\ UNCHANGED <<clips, idx>>
                   \/ /\ result = "download_error"
                      /\ \E partial \in BOOLEAN :
                            fs' = Mkdir(fs, args.download_dir)
                                  \cup (IF partial THEN {clip.file_path} ELSE {})
                      /\ Raise("DownloadError")
                      /\ UNCHANGED <<clips, idx>>
    /\ UNCHANGED <<entry, args, stage, handles, released, videos, duration,
                   start, generated_files, excerpts, assembled_clips, created, outcome>>

Orderings(s) ==
    {t \in [1..Len(s) -> {s[i] : i \in 1..Len(s)}] :
        \E f \in [1..Len(s) -> 1..Len(s)] :
            /\ \A i, j \in 1..Len(s) : i # j => f[i] # f[j]
            /\ \A i \in 1..Len(s) : t[i] = s[f[i]]}

Shuffled(list, randomize) == IF randomize THEN Orderings(list) ELSE {list}

\* end of the loop: optional shuffle, return to main, which calls clip_videos
FetchReturn ==
    /\ pc = "fetch_item"
    /\ idx > Len(args.items)
    /\ videos' \in Shuffled(clips, args.randomize)
    /\ pc' = "cv_validate"
    /\ stage' = "clip"
    /\ UNCHANGED <<entry, args, fs, handles, released, clips, idx, duration,
                   start, generated_files, excerpts, assembled_clips, created,
                   exc, outcome>>

\* ---- clip_videos ----
\* parameter check, _load_moviepy, creation of the output directory
CvValidate ==
    /\ pc = "cv_validate"
    /\ IF ClipDurationInvalid(args.clip_duration) \/ ~args.moviepy
       THEN Raise("ClipGenerationError") /\ UNCHANGED <<fs, generated_files, idx>>
       ELSE /\ fs' = Mkdir(fs, args.clips_dir)
            /\ generated_files' = <<>>
            /\ idx' = 1
            /\ pc' = "cv_open"
            /\ UNCHANGED exc
    /\ UNCHANGED <<entry, args, stage, handles, released, clips, videos, duration,
                   start, assembled_clips, excerpts, created, outcome>>

\* open the source, read its duration, choose the start offset
CvOpen ==
    /\ pc = "cv_open"
    /\ idx <= Len(videos)
    /\ \E ok \in BOOLEAN :
          IF ok
          THEN /\ handles' = handles \cup {<<"source", idx>>}
               /\ \E d \in DurationValues :
                     /\ duration' = d
                     /\ start' \in StartChoices(d, args.clip_duration, args.start_strategy)
               /\ pc' = "cv_subclip"
               /\ UNCHANGED exc
          ELSE Raise("OSError") /\ UNCHANGED <<handles, duration, start>>
    /\ UNCHANGED <<entry, args, stage, fs, released, clips, videos, idx,
                   generated_files, excerpts, assembled_clips, created, outcome>>

\* media_clip.subclip(start, start + clip_duration)
CvSubclip ==
    /\ pc = "cv_subclip"
    /\ \E ok \in BOOLEAN :
          IF ok
          THEN /\ handles' = handles \cup {<<"subclip", idx>>}
               /\ pc' = "cv_write"
               /\ UNCHANGED exc
          ELSE Raise("OSError") /\ UNCHANGED handles
    /\ UNCHANGED <<entry, args, stage, fs, released, clips, videos, idx, duration,
                   start, generated_files, excerpts, assembled_clips, created, outcome>>

\* subclip.write_audiofile / write_videofile
CvWrite ==
    /\ pc = "cv_write"
    /\ LET target == Target(videos[idx], args.clips_dir, args.audio_only)
       IN  \E ok \in BOOLEAN :
              IF ok
              THEN /\ fs' = fs \cup {target}
                   /\ pc' = "cv_close"
                   /\ UNCHANGED exc
              ELSE /\ \E partial \in BOOLEAN :
                         fs' = fs \cup (IF partial THEN {target} ELSE {})
                   /\ Raise("OSError")
    /\ UNCHANGED <<entry, args, stage, handles, released, clips, videos, idx,
                   duration, start, generated_files, excerpts, assembled_clips,
                   created, outcome>>

\* generated_files.append(target); media_clip.close(); subclip.close()
CvClose ==
    /\ pc = "cv_close"
    /\ generated_files' = AppendGenerated(generated_files,
                             Target(videos[idx], args.clips_dir, args.audio_only))
    /\ handles' = handles \ {<<"source", idx>>, <<"subclip", idx>>}
    /\ released' = released \o <<<<"source", idx>>, <<"subclip", idx>>>>
    /\ idx' = idx + 1
    /\ pc' = "cv_open"
    /\ UNCHANGED <<entry, args, stage, fs, clips, videos, duration, start,
                   excerpts, assembled_clips, created, exc, outcome>>

\* return generated_files, to main (which calls build_blindtest) or to the caller
CvReturn ==
    /\ pc = "cv_open"
    /\ idx > Len(videos)
    /\ IF entry = "main"
       THEN /\ excerpts' = generated_files
            /\ pc' = "bb_validate"
            /\ stage' = "build"
            /\ UNCHANGED outcome
       ELSE /\ outcome' = "returned"
            /\ pc' = "done"
            /\ UNCHANGED <<excerpts, stage>>
    /\ UNCHANGED <<entry, args, fs, handles, released, clips, videos, idx, duration,
                   start, generated_files, assembled_clips, created, exc>>

\* ---- build_blindtest ----
\* parameter checks, _load_moviepy, creation of the output's parent directory
BbValidate ==
    /\ pc = "bb_validate"
    /\ IF excerpts = <<>> \/ SilenceInvalid(args.silence_duration) \/ ~args.moviepy
       THEN Raise("AssemblyError") /\ UNCHANGED <<fs, assembled_clips, idx>>
       ELSE /\ fs' = Mkdir(fs, Parent(args.output))
            /\ assembled_clips' = <<>>
            /\ idx' = 1
            /\ pc' = "bb_open"
            /\ UNCHANGED exc
    /\ UNCHANGED <<entry, args, stage, handles, released, clips, videos, duration,
                   start, generated_files, excerpts, created, outcome>>

SegmentHandles(from, to) == {<<"segment", k>> : k \in from..to}

\* one iteration of "for clip_path in clips"
BbOpen ==
    /\ pc = "bb_open"
    /\ idx <= Len(excerpts)
    /\ \E ok \in BOOLEAN :
          IF ok
          THEN /\ assembled_clips' = WithSegments(assembled_clips, excerpts[idx],
                                                  args.silence_duration)
               /\ handles' = handles \cup SegmentHandles(Len(assembled_clips) + 1,
                                                         Len(assembled_clips'))
               /\ idx' = idx + 1
               /\ UNCHANGED <<pc, exc>>
          ELSE Raise("OSError") /\ UNCHANGED <<assembled_clips, handles, idx>>
    /\ UNCHANGED <<entry, args, stage, fs, released, clips, videos, duration, start,
                   generated_files, excerpts, created, outcome>>

\* concatenate_audioclips / concatenate_videoclips
BbConcat ==
    /\ pc = "bb_open"
    /\ idx > Len(excerpts)
    /\ created' = [called |-> TRUE, clips |-> assembled_clips]
    /\ \E ok \in BOOLEAN :
          IF ok
          THEN /\ handles' = handles \cup {<<"final", 0>>}
               /\ pc' = "bb_write"
               /\ UNCHANGED exc
          ELSE Raise("OSError") /\ UNCHANGED handles
    /\ UNCHANGED <<entry, args, stage, fs, released, clips, videos, idx, duration,
                   start, generated_files, excerpts, assembled_clips, outcome>>

\* final_clip.write_audiofile / write_videofile
BbWrite ==
    /\ pc = "bb_write"
    /\ \E ok \in BOOLEAN :
          IF ok
          THEN /\ fs' = fs \cup {args.output}
               /\ pc' = "bb_close"
               /\ UNCHANGED exc
          ELSE /\ \E partial \in BOOLEAN :
                     fs' = fs \cup (IF partial THEN {args.output} ELSE {})
               /\ Raise("OSError")
    /\ UNCHANGED <<entry, args, stage, handles, released, clips, videos, idx,
                   duration, start, generated_files, excerpts, assembled_clips,
                   created, outcome>>

CloseOrder(n) == [k \in 1..n |-> <<"segment", k>>] \o <<<<"final", 0>>>>

\* close every segment, close the composed clip, return output_path
BbClose ==
    /\ pc = "bb_close"
    /\ released' = released \o CloseOrder(Len(assembled_clips))
    /\ handles' = handles \ (SegmentHandles(1, Len(assembled_clips)) \cup {<<"final", 0>>})
    /\ IF entry = "main"
       THEN outcome' = "return0" /\ pc' = "main_finally"
       ELSE outcome' = "returned" /\ pc' = "done"
    /\ UNCHANGED <<entry, args, stage, fs, clips, videos, idx, duration, start,
                   generated_files, excerpts, assembled_clips, created, exc>>

\* ---- main ----
\* except (VideoRetrievalError, ClipGenerationError, AssemblyError): return 1;
\* any other exception type passes through
MainExcept ==
    /\ pc = "raise"
    /\ entry = "main"
    /\ outcome' = IF exc \in CaughtErrors THEN "return1" ELSE "raised"
    /\ pc' = "main_finally"
    /\ UNCHANGED <<entry, args, stage, fs, handles, released, clips, videos, idx,
                   duration, start, generated_files, excerpts, assembled_clips,
                   created, exc>>

\* finally: remove the download directory and the clips directory
MainFinally ==
    /\ pc = "main_finally"
    /\ fs' = Cleanup(fs, args.download_dir, args.clips_dir)
    /\ pc' = "done"
    /\ UNCHANGED <<entry, args, stage, handles, released, clips, videos, idx,
                   duration, start, generated_files, excerpts, assembled_clips,
                   created, exc, outcome>>

\* a component called on its own: the exception reaches its caller
RaiseToCaller ==
    /\ pc = "raise"
    /\ entry # "main"
    /\ outcome' = "raised"
    /\ pc' = "done"
    /\ UNCHANGED <<entry, args, stage, fs, handles, released, clips, videos, idx,
                   duration, start, generated_files, excerpts, assembled_clips,
                   created, exc>>

Next ==
    \/ FetchCall
    \/ FetchItem
    \/ FetchReturn
    \/ CvValidate
    \/ CvOpen
    \/ CvSubclip
    \/ CvWrite
    \/ CvClose
    \/ CvReturn
    \/ BbValidate
    \/ BbOpen
    \/ BbConcat
    \/ BbWrite
    \/ BbClose
    \/ MainExcept
    \/ MainFinally
    \/ RaiseToCaller

Spec == Init /\ [][Next]_vars

\* ---- properties ----
HasVideoId(video_id) == video_id # NoVideoId
IsContent(segment) == segment.kind = "content"
SegmentPaths(segments) == [i \in 1..Len(segments) |-> segments[i].path]
ClipVideosReturned ==
    \/ entry = "main" /\ stage = "build"
    \/ entry = "clip_videos" /\ outcome = "returned"
ClipVideosEnded ==
    \/ ClipVideosReturned
    \/ stage = "clip" /\ pc \in {"raise", "main_finally", "done"}
BuildBlindtestEnded == stage = "build" /\ pc \in {"raise", "main_finally", "done"}
SourceHandles == {h \in handles : h[1] = "source"}
SubclipHandles == {h \in handles : h[1] = "subclip"}
TimelineHandles == {h \in handles : h[1] \in {"segment", "final"}}

\* C1: the list handed to the concatenation call holds one content segment per
\* excerpt, in input order; with silence_duration > 0 every content segment
\* (the last one too) is followed by exactly one silence segment, so the list
\* has length 2*len(excerpts) with content at the odd positions (1-based);
\* with silence_duration = 0 it holds no silence segment.
C1_Timeline ==
    created.called =>
        LET n == Len(excerpts)
            t == created.clips
        IN  /\ n > 0
            /\ args.silence_duration >= 0
            /\ args.silence_duration > 0 =>
                  /\ Len(t) = 2 * n
                  /\ \A i \in 1..n : /\ t[2 * i - 1] = ContentSegment(excerpts[i])
                                     /\ t[2 * i].kind = "silence"
            /\ args.silence_duration = 0 =>
                  /\ Len(t) = n
                  /\ \A i \in 1..n : t[i] = ContentSegment(excerpts[i])

C1_Witness ==
    /\ created.called
    /\ args.silence_duration > 0
    /\ Len(excerpts) = 2
    /\ Len(created.clips) = 4
    /\ excerpts[1] # excerpts[2]

\* C2: order is fixed when fetch_video_clips returns: without randomize its
\* result is the items of the response that have an id, in response order;
\* clip_videos produces the i-th path from the i-th item and returns one path
\* per item; the i-th content segment of the timeline is the i-th excerpt.
C2_OrderPreserved ==
    /\ (entry = "main" /\ stage # "fetch" /\ ~args.randomize) =>
          videos = ToVideoClips(SelectSeq(args.items, HasVideoId))
    /\ stage # "fetch" =>
          /\ Len(generated_files) <= Len(videos)
          /\ \A i \in 1..Len(generated_files) :
                generated_files[i] = Target(videos[i], args.clips_dir, args.audio_only)
    /\ ClipVideosReturned => Len(generated_files) = Len(videos)
    /\ (entry = "main" /\ stage = "build") => excerpts = generated_files
    /\ created.called =>
          SegmentPaths(SelectSeq(created.clips, IsContent)) = excerpts

C2_Witness ==
    /\ entry = "main"
    /\ created.called
    /\ Len(videos) = 2
    /\ videos[1] # videos[2]

\* C3 (as claimed): once build_blindtest has returned or failed, no segment
\* handle and no composed handle it opened is still open, and on return the
\* segment handles were released in timeline order before the composed one.
C3_TimelineHandlesReleased ==
    BuildBlindtestEnded =>
        /\ TimelineHandles = {}
        /\ (exc = "none" /\ pc # "raise") =>
              \E k \in 0..Len(released) :
                  SubSeq(released, k + 1, Len(released)) = CloseOrder(Len(assembled_clips))

\* C4 (as claimed): at most one source handle and one excerpt handle are open
\* at any time, none is open when the next item's source is about to be
\* opened, and none is open once clip_videos has returned or failed.
C4_ItemHandlesScoped ==
    /\ Cardinality(SourceHandles) <= 1
    /\ Cardinality(SubclipHandles) <= 1
    /\ (pc = "cv_open" \/ ClipVideosEnded) => (SourceHandles = {} /\ SubclipHandles = {})

\* C5: when main has finished, on whatever path, neither the download
\* directory nor the clips directory (nor anything below them) exists.
C5_CleanupAlways ==
    (entry = "main" /\ pc = "done") =>
        \A p \in fs : ~IsPrefix(args.download_dir, p) /\ ~IsPrefix(args.clips_dir, p)

C5_Witness ==
    /\ entry = "main"
    /\ pc = "done"
    /\ stage = "clip"
    /\ exc = "OSError"
    /\ generated_files # <<>>

\* C6 (as claimed): a failure inside clip_videos is a ClipGenerationError, a
\* failure inside build_blindtest is an AssemblyError, and main always
\* finishes by returning 0 (exactly when no stage failed) or 1, never by
\* letting an exception through.
C6_ExitStatus ==
    /\ (pc = "raise" /\ stage = "clip") => exc = "ClipGenerationError"
    /\ (pc = "raise" /\ stage = "build") => exc = "AssemblyError"
    /\ (entry = "main" /\ pc = "done") =>
          /\ outcome \in {"return0", "return1"}
          /\ outcome = "return0" <=> exc = "none"

\* C7: a call of build_blindtest with no excerpt or a negative silence, and a
\* call of clip_videos with clip_duration <= 0, raise the component's error in
\* their first step, with the filesystem and the open handles left as they were.
C7_ValidationFirst ==
    [][/\ (pc = "bb_validate" /\ (excerpts = <<>> \/ args.silence_duration < 0)) =>
             (pc' = "raise" /\ exc' = "AssemblyError" /\ fs' = fs /\ handles' = handles)
       /\ (pc = "cv_validate" /\ args.clip_duration <= 0) =>
             (pc' = "raise" /\ exc' = "ClipGenerationError" /\ fs' = fs /\ handles' = handles)
      ]_vars

C7_Witness ==
    /\ entry = "clip_videos"
    /\ pc = "raise"
    /\ exc = "ClipGenerationError"
    /\ args.clip_duration = 0
    /\ args.moviepy
    /\ videos # <<>>
    /\ ClipsDir \notin fs
    /\ handles = {}

\* C8: the start offset chosen for an item is never negative; with a known
\* duration >= clip_duration it leaves room for the whole excerpt under
\* "random" and is 0 under "start"; with an unknown or shorter duration it is
\* 0; choosing it raises nothing.
C8_StartOffset ==
    pc \in {"cv_subclip", "cv_write", "cv_close"} =>
        /\ start >= 0
        /\ (pc = "cv_subclip" => exc = "none")
        /\ (duration # NoneDuration /\ duration >= args.clip_duration) =>
              /\ args.start_strategy = "random" => start + args.clip_duration <= duration
              /\ args.start_strategy = "start" => start = 0
        /\ (duration = NoneDuration \/ duration < args.clip_duration) => start = 0

C8_Witness ==
    /\ pc = "cv_subclip"
    /\ args.start_strategy = "random"
    /\ start > 0
    /\ start + args.clip_duration = duration

\* C9 (as claimed): fetch_video_clips never hands an empty list to main, so
\* clip_videos and build_blindtest never run on zero items.
C9_FetchNonEmpty ==
    (entry = "main" /\ stage \in {"clip", "build"}) => videos # <<>>

\* C10 (as claimed): after a run of main that returned 0 the output file exists.
C10_OutputSurvives ==
    (entry = "main" /\ pc = "done" /\ outcome = "return0") => args.output \in fs

====
